---- MODULE Spec2Model ----
(***************************************************************************)
(* Model of examples/bindgen/main.rs: the program entry `main`, which      *)
(* prints the constant simple_bindgen::SIMPLE_VALUE, and the unit test     *)
(* `do_the_test`, which asserts that constant against 42 and, when built   *)
(* for macOS, asserts simple_bindgen::SIMPLE_IS_MACOS against -1.          *)
(*                                                                         *)
(* Text is a sequence of one-character strings, so that formatting is      *)
(* computed digit by digit and can be compared with, and parsed back       *)
(* from, what was written to standard output.                              *)
(***************************************************************************)
EXTENDS Integers, Sequences, FiniteSets, TLC

VARIABLES macos, lib, mode, pc, stdout, result, panicInfo, reads, other

vars == <<macos, lib, mode, pc, stdout, result, panicInfo, reads, other>>

(***************************************************************************)
(* Bounds of the values the external constants are drawn from.             *)
(***************************************************************************)
MaxNeg == 2
MaxSmall == 9
MaxAbove == 1

\* The literal the test compares SIMPLE_VALUE with (assert_eq!(42, ..)).
AssertEqLeft == 42

\* The literal the test compares SIMPLE_IS_MACOS with (assert_ne!(-1, ..)).
AssertNeLeft == -1

\* Values an exported constant may have: negatives, small values, and the
\* neighbourhood of the expected literal.
ConstValues == ((0 - MaxNeg)..MaxSmall) \cup ((AssertEqLeft - 1)..(AssertEqLeft + MaxAbove))

\* The external crate as main.rs sees it: two named numeric constants of
\* unknown value.
any_bindgen == [SIMPLE_VALUE : ConstValues, SIMPLE_IS_MACOS : ConstValues]

\* The external crate as the repository generates it on platform m
\* (m = TRUE for macOS): SIMPLE_VALUE is 42 and, on macOS, SIMPLE_IS_MACOS
\* is not -1.
simple_bindgen(m) == {l \in any_bindgen : l.SIMPLE_VALUE = 42 /\ (m => l.SIMPLE_IS_MACOS # -1)}

SIMPLE_VALUE == lib.SIMPLE_VALUE
SIMPLE_IS_MACOS == lib.SIMPLE_IS_MACOS

(***************************************************************************)
(* Formatting: Display of an integer, the format string of main, println.  *)
(***************************************************************************)
DigitChars == <<"0", "1", "2", "3", "4", "5", "6", "7", "8", "9">>

RECURSIVE DisplayUnsigned(_)
DisplayUnsigned(n) == IF n < 10 THEN <<DigitChars[n + 1]>> ELSE Append(DisplayUnsigned(n \div 10), DigitChars[(n % 10) + 1])

\* A mis-formatting Display: the sign of a negative value is lost.
DisplayNoSign(v) == IF v < 0 THEN DisplayUnsigned(0 - v) ELSE DisplayUnsigned(v)

\* `{}` applied to an integer: decimal digits, '-' first when negative.
Display(v) == IF v < 0 THEN <<"-">> \o DisplayUnsigned(0 - v) ELSE DisplayUnsigned(v)

\* A format string that lost its trailing '!'.
FormatLineNoBang(v) == <<"T", "h", "e", " ", "v", "a", "l", "u", "e", " ", "i", "s", " ">> \o Display(v)

\* format_args!("The value is {}!", v)
FormatLine(v) == <<"T", "h", "e", " ", "v", "a", "l", "u", "e", " ", "i", "s", " ">> \o Display(v) \o <<"!">>

\* println!: the formatted text followed by a newline, appended to out.
println(out, text) == out \o text \o <<"\n">>

(***************************************************************************)
(* The operands the code reads.                                            *)
(***************************************************************************)
\* main formatting the wrong constant.
MainArgWrongConst(l) == [name |-> "SIMPLE_IS_MACOS", value |-> l.SIMPLE_IS_MACOS]

\* The argument of println! in main.
MainArg(l) == [name |-> "SIMPLE_VALUE", value |-> l.SIMPLE_VALUE]

\* do_the_test comparing the wrong constant with 42.
AssertEqRightWrongConst(l) == [name |-> "SIMPLE_IS_MACOS", value |-> l.SIMPLE_IS_MACOS]

\* The right operand of assert_eq! in do_the_test.
AssertEqRight(l) == [name |-> "SIMPLE_VALUE", value |-> l.SIMPLE_VALUE]

\* The right operand of assert_ne! in do_the_test.
AssertNeRight(l) == [name |-> "SIMPLE_IS_MACOS", value |-> l.SIMPLE_IS_MACOS]

\* The cfg attribute dropped: assert_ne! compiled on every platform.
AfterAssertEqNoCfg(m) == "assert_ne"

\* The assert_ne! statement compiled out on every platform.
AfterAssertEqNeverNe(m) == "test_ret"

\* Where do_the_test continues after a passing assert_eq!: the assert_ne!
\* statement exists only under #[cfg(target_os = "macos")].
AfterAssertEq(m) == IF m THEN "assert_ne" ELSE "test_ret"

NoPanic == [check |-> "none", left |-> 0, right |-> 0]

NoRun == [macos |-> FALSE, lib |-> [SIMPLE_VALUE |-> 0, SIMPLE_IS_MACOS |-> 0], pc |-> "none", stdout |-> <<>>]

(***************************************************************************)
(* Initial states.                                                         *)
(***************************************************************************)
\* A fresh process: libs[m] is the set of crates it may be linked with on
\* platform m.
InitRun(libs) ==
    /\ macos \in BOOLEAN
    /\ lib \in libs[macos]
    /\ mode \in {"run", "test"}
    /\ pc = IF mode = "run" THEN "main" ELSE "do_the_test"
    /\ stdout = <<>>
    /\ result = "none"
    /\ panicInfo = NoPanic
    /\ reads = <<>>
    /\ other = NoRun

\* The program or the test, linked against the crate the repository builds.
Init == InitRun([m \in BOOLEAN |-> simple_bindgen(m)])

\* The program or the test, linked against a crate exporting any values.
InitAnyLib == InitRun([m \in BOOLEAN |-> any_bindgen])

(***************************************************************************)
(* main                                                                    *)
(***************************************************************************)
MainPrintln ==
    /\ mode = "run"
    /\ pc = "main"
    /\ stdout' = println(stdout, FormatLine(MainArg(lib).value))
    /\ reads' = Append(reads, [by |-> "main", name |-> MainArg(lib).name, value |-> MainArg(lib).value])
    /\ pc' = "main_ret"
    /\ UNCHANGED <<macos, lib, mode, result, panicInfo, other>>

\* main that never returns after printing.
MainReturnHang ==
    /\ mode = "run"
    /\ pc = "main_ret"
    /\ result = "none"
    /\ result' = "success"
    /\ UNCHANGED <<macos, lib, mode, pc, stdout, panicInfo, reads, other>>

MainReturn ==
    /\ mode = "run"
    /\ pc = "main_ret"
    /\ pc' = "exit"
    /\ result' = "success"
    /\ UNCHANGED <<macos, lib, mode, stdout, panicInfo, reads, other>>

(***************************************************************************)
(* test::do_the_test                                                       *)
(***************************************************************************)
\* A failed assertion that records the failure and lets the test go on.
PanicContinue(check, left, right) ==
    /\ pc' = IF check = "assert_eq" THEN "assert_ne" ELSE "test_ret"
    /\ result' = "failed"
    /\ panicInfo' = [check |-> check, left |-> left, right |-> right]

\* A failed assertion: the test stops and reports the check and operands.
Panic(check, left, right) ==
    /\ pc' = "exit"
    /\ result' = "failed"
    /\ panicInfo' = [check |-> check, left |-> left, right |-> right]

AssertEq ==
    /\ mode = "test"
    /\ pc = "do_the_test"
    /\ reads' = Append(reads, [by |-> "do_the_test", name |-> AssertEqRight(lib).name, value |-> AssertEqRight(lib).value])
    /\ IF AssertEqLeft = AssertEqRight(lib).value
          THEN /\ pc' = AfterAssertEq(macos)
               /\ UNCHANGED <<result, panicInfo>>
          ELSE Panic("assert_eq", AssertEqLeft, AssertEqRight(lib).value)
    /\ UNCHANGED <<macos, lib, mode, stdout, other>>

AssertNe ==
    /\ mode = "test"
    /\ pc = "assert_ne"
    /\ reads' = Append(reads, [by |-> "do_the_test", name |-> AssertNeRight(lib).name, value |-> AssertNeRight(lib).value])
    /\ IF AssertNeLeft # AssertNeRight(lib).value
          THEN /\ pc' = "test_ret"
               /\ UNCHANGED <<result, panicInfo>>
          ELSE Panic("assert_ne", AssertNeLeft, AssertNeRight(lib).value)
    /\ UNCHANGED <<macos, lib, mode, stdout, other>>

TestReturn ==
    /\ mode = "test"
    /\ pc = "test_ret"
    /\ pc' = "exit"
    /\ result' = "passed"
    /\ UNCHANGED <<macos, lib, mode, stdout, panicInfo, reads, other>>

Next == MainPrintln \/ MainReturn \/ AssertEq \/ AssertNe \/ TestReturn

Spec == Init /\ [][Next]_vars

SpecAnyLib == InitAnyLib /\ [][Next]_vars

\* A started process keeps running: no step waits on anything.
FairSpec == InitAnyLib /\ [][Next]_vars /\ WF_vars(Next)

(***************************************************************************)
(* Two runs of main side by side, on platforms and with SIMPLE_IS_MACOS    *)
(* values chosen independently, sharing SIMPLE_VALUE.                      *)
(***************************************************************************)
InitPair ==
    /\ macos \in BOOLEAN
    /\ lib \in any_bindgen
    /\ mode = "run"
    /\ pc = "main"
    /\ stdout = <<>>
    /\ result = "none"
    /\ panicInfo = NoPanic
    /\ reads = <<>>
    /\ other \in [macos : BOOLEAN, lib : {l \in any_bindgen : l.SIMPLE_VALUE = lib.SIMPLE_VALUE}, pc : {"main"}, stdout : {<<>>}]

OtherPrintln ==
    /\ other.pc = "main"
    /\ other' = [other EXCEPT !.stdout = println(@, FormatLine(MainArg(other.lib).value)), !.pc = "main_ret"]
    /\ UNCHANGED <<macos, lib, mode, pc, stdout, result, panicInfo, reads>>

OtherReturn ==
    /\ other.pc = "main_ret"
    /\ other' = [other EXCEPT !.pc = "exit"]
    /\ UNCHANGED <<macos, lib, mode, pc, stdout, result, panicInfo, reads>>

NextPair == MainPrintln \/ MainReturn \/ OtherPrintln \/ OtherReturn

SpecPair == InitPair /\ [][NextPair]_vars

(***************************************************************************)
(* Reading standard output back: lines, and the decimal number in a line.  *)
(***************************************************************************)
RECURSIVE SplitLines(_, _, _)
SplitLines(s, cur, acc) ==
    IF s = <<>> THEN (IF cur = <<>> THEN acc ELSE Append(acc, cur))
    ELSE IF Head(s) = "\n" THEN SplitLines(Tail(s), <<>>, Append(acc, cur))
    ELSE SplitLines(Tail(s), Append(cur, Head(s)), acc)

\* The lines of a stream: its text cut at every newline.
Lines(s) == SplitLines(s, <<>>, <<>>)

IsDigit(c) == \E d \in 0..9 : DigitChars[d + 1] = c

DigitValue(c) == CHOOSE d \in 0..9 : DigitChars[d + 1] = c

RECURSIVE ParseUnsigned(_)
ParseUnsigned(s) == IF Len(s) = 1 THEN DigitValue(s[1]) ELSE 10 * ParseUnsigned(SubSeq(s, 1, Len(s) - 1)) + DigitValue(s[Len(s)])

IsDecimal(s) ==
    /\ Len(s) >= 1
    /\ IF s[1] = "-" THEN Len(s) >= 2 /\ \A i \in 2..Len(s) : IsDigit(s[i]) ELSE \A i \in 1..Len(s) : IsDigit(s[i])

ParseDecimal(s) == IF s[1] = "-" THEN 0 - ParseUnsigned(Tail(s)) ELSE ParseUnsigned(s)

TheValueIs == <<"T", "h", "e", " ", "v", "a", "l", "u", "e", " ", "i", "s", " ">>

TheValueIs42 == <<"T", "h", "e", " ", "v", "a", "l", "u", "e", " ", "i", "s", " ", "4", "2", "!">>

\* line is "The value is <v>!" for the decimal numeral of v.
IsGreetingOf(line, v) ==
    /\ Len(line) >= Len(TheValueIs) + 2
    /\ SubSeq(line, 1, Len(TheValueIs)) = TheValueIs
    /\ line[Len(line)] = "!"
    /\ IsDecimal(SubSeq(line, Len(TheValueIs) + 1, Len(line) - 1))
    /\ ParseDecimal(SubSeq(line, Len(TheValueIs) + 1, Len(line) - 1)) = v

HasRead(by, name) == \E i \in DOMAIN reads : reads[i].by = by /\ reads[i].name = name

C2_PrintsOneLine ==
    mode = "run" =>
        /\ pc = "main" => stdout = <<>>
        /\ pc = "exit" => /\ Len(Lines(stdout)) = 1
                          /\ Lines(stdout)[1] = TheValueIs42
                          /\ stdout = TheValueIs42 \o <<"\n">>

C2_Witness == mode = "run" /\ pc = "exit" /\ result = "success" /\ stdout # <<>>

\* C3: on macOS a finished do_the_test has failed whenever SIMPLE_IS_MACOS
\* is -1; on any other platform SIMPLE_IS_MACOS is never read and the
\* outcome is decided by SIMPLE_VALUE alone, also when SIMPLE_IS_MACOS is -1.
C3_MacosOnlyCheck ==
    (mode = "test" /\ pc = "exit") =>
        IF macos
        THEN SIMPLE_IS_MACOS = -1 => result = "failed"
        ELSE /\ ~HasRead("do_the_test", "SIMPLE_IS_MACOS")
             /\ result = IF SIMPLE_VALUE = 42 THEN "passed" ELSE "failed"

C3_Witness == mode = "test" /\ pc = "exit" /\ ~macos /\ SIMPLE_IS_MACOS = -1 /\ result = "passed"

ShouldFail == SIMPLE_VALUE # 42 \/ (macos /\ SIMPLE_IS_MACOS = -1)

\* C4: the test run ends failed exactly when SIMPLE_VALUE is not 42 or, on
\* macOS, SIMPLE_IS_MACOS is -1, and passed otherwise; a failure reports
\* the check that did not hold with its operands; the run has no third
\* outcome and takes no step after it has ended.
C4_AssertionFailureIsHardStop ==
    mode = "test" =>
        /\ result \in {"none", "passed", "failed"}
        /\ (pc = "exit") = (result # "none")
        /\ pc = "exit" => /\ (result = "failed") = ShouldFail
                          /\ (result = "passed") = ~ShouldFail
                          /\ ~ENABLED Next
        /\ result = "failed" =>
              panicInfo = IF SIMPLE_VALUE # 42
                          THEN [check |-> "assert_eq", left |-> 42, right |-> SIMPLE_VALUE]
                          ELSE [check |-> "assert_ne", left |-> -1, right |-> SIMPLE_IS_MACOS]
        /\ result # "failed" => panicInfo = NoPanic

C4_Witness == mode = "test" /\ pc = "exit" /\ macos /\ SIMPLE_VALUE = 42 /\ SIMPLE_IS_MACOS = -1 /\ result = "failed" /\ panicInfo.check = "assert_ne"

\* C5: every execution terminates: the program run and the test run each
\* reach their final state, with an outcome, and stay there.
C5_Terminates == <>[](pc = "exit" /\ result \in {"success", "passed", "failed"})

C5_Witness == mode = "run" /\ pc = "exit" /\ result = "success" /\ Len(Lines(stdout)) = 1

\* C6: on macOS the SIMPLE_VALUE check comes first: SIMPLE_IS_MACOS is read
\* only after SIMPLE_VALUE was read and found to be 42, and when
\* SIMPLE_VALUE is not 42 the test ends at the first assertion, reporting
\* it, without SIMPLE_IS_MACOS ever being read, even if that one is -1.
C6_ValueCheckedFirst ==
    (mode = "test" /\ macos) =>
        /\ \A i \in DOMAIN reads : reads[i].name = "SIMPLE_IS_MACOS" =>
              i > 1 /\ reads[1].name = "SIMPLE_VALUE" /\ reads[1].value = 42
        /\ (SIMPLE_VALUE # 42 /\ pc # "do_the_test") =>
              /\ pc = "exit"
              /\ result = "failed"
              /\ panicInfo.check = "assert_eq"
              /\ ~HasRead("do_the_test", "SIMPLE_IS_MACOS")

C6_Witness == mode = "test" /\ macos /\ SIMPLE_VALUE # 42 /\ SIMPLE_IS_MACOS = -1 /\ pc = "exit" /\ panicInfo.check = "assert_eq"

\* C7: main asserts nothing: whatever SIMPLE_VALUE is, the program run
\* never fails, and when it ends it has succeeded and printed the single
\* line "The value is v!" with v the decimal numeral of SIMPLE_VALUE.
C7_MainNeverFails ==
    mode = "run" =>
        /\ result # "failed"
        /\ panicInfo = NoPanic
        /\ pc = "exit" => /\ result = "success"
                          /\ Len(Lines(stdout)) = 1
                          /\ IsGreetingOf(Lines(stdout)[1], SIMPLE_VALUE)

C7_Witness == mode = "run" /\ pc = "exit" /\ SIMPLE_VALUE < 0 /\ result = "success" /\ Len(stdout) > 0

\* C8: two finished runs of main with the same SIMPLE_VALUE have written
\* the same output, whatever the platform and SIMPLE_IS_MACOS of each.
C8_OutputIndependentOfPlatform ==
    (mode = "run" /\ pc = "exit" /\ other.pc = "exit") => stdout = other.stdout

C8_Witness == mode = "run" /\ pc = "exit" /\ other.pc = "exit" /\ macos # other.macos /\ SIMPLE_IS_MACOS # other.lib.SIMPLE_IS_MACOS /\ Len(other.stdout) > 0

====
